---- MODULE Spec2Model ----
(***************************************************************************)
(* State-machine model of the settings view of the council client          *)
(* (frontend/src/components/Settings.jsx) and of its stage views           *)
(* (unnamed/part_000, the Stage1 component, and Stage2.jsx) and sidebar    *)
(* (Sidebar.jsx).                                                          *)
(*                                                                         *)
(* The component's useState cells are the variables.  Every handler is one *)
(* action; an async handler is cut at each await of a collaborator call    *)
(* into the part that runs up to the call and one action per outcome of    *)
(* the call (resolved / rejected) that runs the continuation to the next   *)
(* await or to the end of the handler, finally-blocks included.            *)
(* JavaScript runs each such piece to completion, and React commits the    *)
(* state updates of a piece before the next event is dispatched, so a      *)
(* handler always reads the state of the latest render.                    *)
(*                                                                         *)
(* The three secret fields (tavilyApiKey, braveApiKey, openrouterApiKey),  *)
(* their isTesting* flags and their *TestResult cells are three copies of  *)
(* the same code; they are modelled as functions over Keys.                *)
(*                                                                         *)
(* An optional value (null / undefined or a value) is the empty set or a   *)
(* singleton set.  A string that is inspected character by character (an   *)
(* API key, a model id, an evaluation text) is a sequence of               *)
(* one-character strings.                                                  *)
(***************************************************************************)
EXTENDS Integers, Sequences, FiniteSets, TLC

VARIABLES
    mounted,             \* the mount effect (useEffect, []) has run
    server,              \* PersistedSettings held by the persistence collaborator
    settings,            \* useState(null): {} or {[key_set]} (only the *_api_key_set flags are read)
    selectedProvider,    \* useState('duckduckgo')
    fullContentResults,  \* useState(3)
    apiKey,              \* tavilyApiKey / braveApiKey / openrouterApiKey
    councilModels,       \* useState([])
    chairmanModel,       \* useState('')
    availableModels,     \* useState([])
    isLoadingModels,     \* useState(false)
    showFreeOnly,        \* useState(false)
    isSaving,            \* useState(false)
    isTesting,           \* isTestingTavily / isTestingBrave / isTestingOpenRouter
    testResult,          \* tavilyTestResult / braveTestResult / openrouterTestResult
    error,               \* useState(null)
    success,             \* useState(false)
    getSettingsCalls,    \* api.getSettings() calls in flight, per caller of loadSettings
    getModelsCalls,      \* api.getModels() calls in flight, per caller of loadSettings
    updateCalls,         \* api.updateSettings(updates) calls in flight: their payloads
    defaultsCalls,       \* api.getDefaultSettings() calls in flight
    testCalls,           \* api.test*Key calls in flight per key: [fresh, stale]
    timers,              \* pending setTimeout(() => setSuccess(false), 3000)
    budget,              \* user events still to come in this session
    saveRefused,         \* history: a click on Save was swallowed by the disabled button
    removeRefused,       \* history: a click on the remove button of the only member was swallowed
    \* Stage1 / Stage2 (unnamed/part_000, Stage2.jsx), per stage
    stageItems,          \* the responses / rankings prop: {} (absent) or {its length}
    activeTab,           \* useState(0)
    effectPending,       \* the clamping effect is due: a dependency changed in the last render
    clamped,             \* history: the clamping effect has reset activeTab
    \* Stage2: the evaluation text of the current tab
    rankingText,         \* currentRanking.ranking
    labelToModel,        \* the labelToModel prop: {} (absent) or {sequence of <<label, model>>}
    shownText,           \* what deAnonymizeText returned: {} before the render
    \* the tab names
    tabModel,            \* resp.model / rank.model: {} (absent) or {id}
    displayName,         \* the name shown on the tab, per stage: {} before the render
    \* Stage2: the aggregate rankings
    aggregateRankings,   \* the aggregateRankings prop: {} (absent) or {its entries}
    shownAggregate,      \* the aggregate-item rows rendered: {} before the render
    \* Sidebar (Sidebar.jsx)
    isLoading,           \* the isLoading prop
    deleteConfirmId,     \* useState(null): {} or {conversation id}
    sidebarLog,          \* history: the callbacks invoked, the delete clicks and the cancels
    sidebarBudget        \* sidebar events still to come

settingsVars ==
    <<mounted, server, settings, selectedProvider, fullContentResults, apiKey,
      councilModels, chairmanModel, availableModels, isLoadingModels,
      showFreeOnly, isSaving, isTesting, testResult, error, success,
      getSettingsCalls, getModelsCalls, updateCalls, defaultsCalls,
      testCalls, timers, budget, saveRefused, removeRefused>>

tabVars == <<stageItems, activeTab, effectPending, clamped>>
deanonVars == <<rankingText, labelToModel, shownText>>
nameVars == <<tabModel, displayName>>
aggVars == <<aggregateRankings, shownAggregate>>
sidebarVars == <<isLoading, deleteConfirmId, sidebarLog, sidebarBudget>>
stageVars == <<tabVars, deanonVars, nameVars, aggVars, sidebarVars>>

vars == <<settingsVars, stageVars>>

formVars == <<selectedProvider, fullContentResults>>
rosterVars == <<councilModels, chairmanModel>>
keyVars == <<apiKey, isTesting, testResult, testCalls>>
catalogVars == <<availableModels, isLoadingModels, showFreeOnly>>
saveVars == <<isSaving, error, success, updateCalls, timers>>
loadVars == <<mounted, settings, getSettingsCalls, getModelsCalls>>

-----------------------------------------------------------------------------
(* Bounds of the model. *)

\* user events (clicks, keystrokes) explored per session
MaxEvents == 3
\* user events explored per session under the fair specification
MaxLiveEvents == 2
\* how far past the end of the roster a caller's index may point
MaxPastEnd == 2
\* the longest catalog the models endpoint returns to the chairman select
MaxCatalog == 3
\* the longest responses / rankings collection
MaxTabs == 3
\* the longest evaluation text, in characters
MaxTextLen == 3
\* the most entries of a labelToModel mapping
MaxLabels == 2
\* the longest model id, in characters
MaxIdLen == 5
\* the longest aggregate ranking
MaxAggregate == 3
\* sidebar events (clicks, changes of isLoading) explored per session
MaxSidebarEvents == 4

-----------------------------------------------------------------------------
(* Values. *)

None == "null"
Keys == {"tavily", "brave", "openrouter"}
Callers == {"mount", "save"}
Stages == {"stage1", "stage2"}

\* the masking character of the placeholder, U+2022
Bullet == "U+2022"
PlaceholderLen == 16
Placeholder == [i \in 1..PlaceholderLen |-> Bullet]

SEARCH_PROVIDERS ==
    << [id |-> "duckduckgo", requiresKey |-> FALSE, keyType |-> None],
       [id |-> "tavily",     requiresKey |-> TRUE,  keyType |-> "tavily"],
       [id |-> "brave",      requiresKey |-> TRUE,  keyType |-> "brave"] >>

DefaultProvider == "duckduckgo"
DefaultFullContentResults == 3

EnterKeyFirst == [success |-> FALSE, message |-> "Please enter an API key first"]
TestFailed == [success |-> FALSE, message |-> "Test failed"]
FailedToLoad == "Failed to load settings"
FailedToLoadDefaults == "Failed to load default settings"
FailedToSave == "Failed to save settings"

(* Inputs the user and the collaborators supply. *)
KeyInputs == { <<>>, <<"s", "k">>, <<Bullet, "k">>, Placeholder }
FullContentInputs == {0, 5}
Catalog == << [id |-> "a/paid", name |-> "A", is_free |-> FALSE],
              [id |-> "b/free", name |-> "B", is_free |-> TRUE] >>
CatalogResponses == { Catalog, <<>> }
TestResponses == { [success |-> TRUE, message |-> "valid"],
                   [success |-> FALSE, message |-> "invalid"] }
DefaultSettings == [council_models |-> <<"b/free", "a/paid">>, chairman_model |-> "a/paid"]

FreshServer ==
    [search_provider |-> {}, full_content_results |-> {}, council_models |-> {},
     chairman_model |-> {}, key_set |-> [k \in Keys |-> FALSE]]
ConfiguredServer ==
    [search_provider |-> {"tavily"}, full_content_results |-> {0},
     council_models |-> {<<"a/paid", "b/free">>}, chairman_model |-> {"a/paid"},
     key_set |-> [k \in Keys |-> k = "tavily"]]
ServerStates == {FreshServer, ConfiguredServer}

\* the models a catalog is drawn from, the catalogs (ids identify models), and
\* the persisted chairman values the chairman select is checked with
Models ==
    { [id |-> "a/paid", name |-> "A", is_free |-> FALSE],
      [id |-> "b/free", name |-> "B", is_free |-> TRUE],
      [id |-> "c/paid", name |-> "C", is_free |-> FALSE],
      [id |-> "d/free", name |-> "D", is_free |-> TRUE] }
Catalogs ==
    { s \in UNION { [1..n -> Models] : n \in 0..MaxCatalog } :
        \A i, j \in DOMAIN s : s[i].id = s[j].id => i = j }
ChairmanInputs == { m.id : m \in Models } \cup {"", "x/gone"}
ChairmanServers ==
    { [ConfiguredServer EXCEPT !.chairman_model = {c}] : c \in ChairmanInputs }

-----------------------------------------------------------------------------
(* Helpers. *)

Max(a, b) == IF a >= b THEN a ELSE b
Range(s) == { s[i] : i \in DOMAIN s }
RemoveAt(s, i) == SubSeq(s, 1, i - 1) \o SubSeq(s, i + 1, Len(s))

\* x ?? d
OrElse(opt, d) == IF opt = {} THEN d ELSE CHOOSE x \in opt : TRUE
\* x || d, for a string x
OrElseFalsy(opt, d) == IF opt = {} \/ opt = {""} THEN d ELSE CHOOSE x \in opt : TRUE

\* key.startsWith(c)
StartsWith(key, c) == Len(key) > 0 /\ key[1] = c

-----------------------------------------------------------------------------
(* Derived values of a render. *)

\* if (!settings) return <Loading settings...>: nothing else is rendered
Rendered == settings # {}

\* SEARCH_PROVIDERS.find(p => p.id === selectedProvider)?.keyType
selectedProviderKeyType ==
    LET hits == { i \in DOMAIN SEARCH_PROVIDERS : SEARCH_PROVIDERS[i].id = selectedProvider }
    IN  IF hits = {} THEN "undefined"
        ELSE SEARCH_PROVIDERS[CHOOSE i \in hits : \A j \in hits : i <= j].keyType

\* the api-key-section of key k is part of the render
KeySectionShown(k) ==
    Rendered /\ (k = "openrouter" \/ selectedProviderKeyType = k)

\* faulty variant of FullContentShown: the control is shown for every provider
FullContentShownAlways == Rendered

\* {selectedProvider !== 'tavily' && <div className="full-content-section">}
FullContentShown == Rendered /\ selectedProvider # "tavily"

\* showFreeOnly ? availableModels.filter(m => m.is_free) : availableModels
filteredModels ==
    LET IsFree(m) == m.is_free
    IN  IF showFreeOnly THEN SelectSeq(availableModels, IsFree) ELSE availableModels

\* faulty variant of chairmanModels: the free models are not filtered out
chairmanModelsUnfiltered == availableModels

\* availableModels.filter(m => !m.is_free)
chairmanModels ==
    LET IsPaid(m) == ~m.is_free
    IN  SelectSeq(availableModels, IsPaid)

\* the option values of the select of one council slot
MemberOptions(modelId) == { m.id : m \in Range(filteredModels) } \cup {modelId}

\* the option values of the chairman select
ChairmanOptions == { m.id : m \in Range(chairmanModels) } \cup {chairmanModel}

\* the options of the chairman select, in order: one per entry of chairmanModels,
\* then the current value marked "(not recommended)" when chairmanModels lacks it
chairmanOptionList ==
    [i \in DOMAIN chairmanModels |->
        [value |-> chairmanModels[i].id, notRecommended |-> FALSE]]
    \o (IF \E i \in DOMAIN chairmanModels : chairmanModels[i].id = chairmanModel
        THEN <<>>
        ELSE <<[value |-> chairmanModel, notRecommended |-> TRUE]>>)

\* {error && <div className="settings-error">}: the banner is in the rendered view
BannerVisible == Rendered /\ error # None

\* faulty variants of SaveDisabled: the in-flight flag, or the roster, is not
\* consulted
SaveDisabledNoFlag == Len(councilModels) = 0
SaveDisabledNoRoster == isSaving

\* disabled={isSaving || councilModels.length === 0}
SaveDisabled == isSaving \/ Len(councilModels) = 0

\* faulty variant of RemoveDisabled: the button is never disabled
RemoveNeverDisabled == FALSE

\* disabled={councilModels.length <= 1}
RemoveDisabled == Len(councilModels) <= 1

\* disabled={isTestingTavily || !tavilyApiKey}
TestDisabled(k) == isTesting[k] \/ apiKey[k] = <<>>

\* the key is sent: tavilyApiKey && !tavilyApiKey.startsWith(Bullet)
KeySent(key) == key # <<>> /\ ~StartsWith(key, Bullet)

\* const updates = {...}
updates ==
    [search_provider |-> selectedProvider,
     full_content_results |-> fullContentResults,
     council_models |-> councilModels,
     chairman_model |-> chairmanModel,
     secrets |-> [k \in { k \in Keys : KeySent(apiKey[k]) } |-> apiKey[k]]]

\* updated = [...prev]; updated[index] = modelId  (index is a position, from 1;
\* an index past the end extends the array with holes)
ArraySet(prev, index, modelId) ==
    [j \in 1..Max(Len(prev), index) |->
        IF j = index THEN modelId
        ELSE IF j <= Len(prev) THEN prev[j] ELSE "undefined"]

\* faulty variant of AddedMember: the free-only filter is ignored
AddedMemberUnfiltered(prev) ==
    IF Len(availableModels) > 0
    THEN Append(prev, availableModels[1].id)
    ELSE prev

\* if (filteredModels.length > 0) [...prev, filteredModels[0].id], else prev is kept
AddedMember(prev) ==
    IF Len(filteredModels) > 0
    THEN Append(prev, filteredModels[1].id)
    ELSE prev

\* the persistence collaborator applies an update: the enumerated fields are
\* overwritten, a secret sent marks its key as set, a secret omitted is kept
ServerApply(srv, u) ==
    [search_provider |-> {u.search_provider},
     full_content_results |-> {u.full_content_results},
     council_models |-> {u.council_models},
     chairman_model |-> {u.chairman_model},
     key_set |-> [k \in Keys |-> srv.key_set[k] \/ k \in DOMAIN u.secrets]]

\* the indexes and ids a caller of handleCouncilModelChange passes
IndexInputs == 1..(Len(councilModels) + MaxPastEnd)
ModelIdInputs == { m.id : m \in Range(Catalog) }

\* one user event is consumed
Spend == budget > 0 /\ budget' = budget - 1

-----------------------------------------------------------------------------
(* Initial state: the component is constructed, its effect has not run. *)

\* the useState initial values, and no call in flight
InitState ==
    /\ mounted = FALSE
    /\ settings = {}
    /\ selectedProvider = DefaultProvider
    /\ fullContentResults = DefaultFullContentResults
    /\ apiKey = [k \in Keys |-> <<>>]
    /\ councilModels = <<>>
    /\ chairmanModel = ""
    /\ availableModels = <<>>
    /\ isLoadingModels = FALSE
    /\ showFreeOnly = FALSE
    /\ isSaving = FALSE
    /\ isTesting = [k \in Keys |-> FALSE]
    /\ testResult = [k \in Keys |-> {}]
    /\ error = None
    /\ success = FALSE
    /\ getSettingsCalls = [c \in Callers |-> 0]
    /\ getModelsCalls = [c \in Callers |-> 0]
    /\ updateCalls = <<>>
    /\ defaultsCalls = 0
    /\ testCalls = [k \in Keys |-> [fresh |-> 0, stale |-> 0]]
    /\ timers = 0
    /\ saveRefused = FALSE
    /\ removeRefused = FALSE

InitView == server \in ServerStates /\ InitState

\* the stage views before their first render with data: useState(0)
NoTabs ==
    /\ stageItems = [s \in Stages |-> {}]
    /\ activeTab = [s \in Stages |-> 0]
    /\ effectPending = [s \in Stages |-> FALSE]
    /\ clamped = [s \in Stages |-> FALSE]

\* no evaluation text has been rendered
NoText ==
    /\ rankingText = <<>>
    /\ labelToModel = {}
    /\ shownText = {}

\* no tab name has been rendered
NoName ==
    /\ tabModel = {}
    /\ displayName = [s \in Stages |-> {}]

\* no stage view is shown
\* no aggregate ranking has been rendered
NoAggregate ==
    /\ aggregateRankings = {}
    /\ shownAggregate = {}

\* the sidebar with no confirmation open and no event to come
NoSidebar ==
    /\ isLoading = FALSE
    /\ deleteConfirmId = {}
    /\ sidebarLog = <<>>
    /\ sidebarBudget = 0

NoStage == NoTabs /\ NoText /\ NoName /\ NoAggregate /\ NoSidebar

Init == InitView /\ budget = MaxEvents /\ NoStage

LiveInit == InitView /\ budget = MaxLiveEvents /\ NoStage

-----------------------------------------------------------------------------
(* loadSettings and loadModels. *)

\* faulty variant of loadSettings: the catalog fetch is started together with
\* the settings fetch instead of after it
loadSettingsEager(c) ==
    /\ getSettingsCalls' = [getSettingsCalls EXCEPT ![c] = @ + 1]
    /\ getModelsCalls' = [getModelsCalls EXCEPT ![c] = @ + 1]
    /\ isLoadingModels' = TRUE

\* loadSettings up to its first await: const data = await api.getSettings()
loadSettings(c) ==
    /\ getSettingsCalls' = [getSettingsCalls EXCEPT ![c] = @ + 1]
    /\ UNCHANGED <<getModelsCalls, isLoadingModels>>

\* useEffect(() => { loadSettings(); }, [])
useEffectMount ==
    /\ ~mounted
    /\ mounted' = TRUE
    /\ loadSettings("mount")
    /\ UNCHANGED <<server, settings, formVars, rosterVars, keyVars, availableModels,
                   showFreeOnly, saveVars, defaultsCalls, budget, saveRefused, removeRefused, stageVars>>

\* what runs when loadSettings(c) has returned to its caller: nothing for the
\* mount effect; for handleSave the rest of its try block and its finally
AfterLoadSettings(c) ==
    /\ timers' = IF c = "save" THEN timers + 1 ELSE timers
    /\ isSaving' = IF c = "save" THEN FALSE ELSE isSaving

\* api.getSettings() resolved: the draft is overwritten, then loadModels starts
getSettingsResolved(c) ==
    /\ getSettingsCalls[c] > 0
    /\ getSettingsCalls' = [getSettingsCalls EXCEPT ![c] = @ - 1]
    /\ settings' = {[key_set |-> server.key_set]}
    /\ selectedProvider' = OrElseFalsy(server.search_provider, DefaultProvider)
    /\ fullContentResults' = OrElse(server.full_content_results, DefaultFullContentResults)
    /\ councilModels' = OrElse(server.council_models, <<>>)
    /\ chairmanModel' = OrElseFalsy(server.chairman_model, "")
    /\ isLoadingModels' = TRUE
    /\ getModelsCalls' = [getModelsCalls EXCEPT ![c] = @ + 1]
    /\ UNCHANGED <<mounted, server, keyVars, availableModels, showFreeOnly,
                   saveVars, defaultsCalls, budget, saveRefused, removeRefused, stageVars>>

\* api.getSettings() rejected: catch in loadSettings, which then returns
getSettingsRejected(c) ==
    /\ getSettingsCalls[c] > 0
    /\ getSettingsCalls' = [getSettingsCalls EXCEPT ![c] = @ - 1]
    /\ error' = FailedToLoad
    /\ AfterLoadSettings(c)
    /\ UNCHANGED <<mounted, server, settings, formVars, rosterVars, keyVars,
                   catalogVars, getModelsCalls, success, updateCalls,
                   defaultsCalls, budget, saveRefused, removeRefused, stageVars>>

\* api.getModels() resolved with data: finally of loadModels, loadSettings returns
getModelsResolved(c, models) ==
    /\ getModelsCalls[c] > 0
    /\ getModelsCalls' = [getModelsCalls EXCEPT ![c] = @ - 1]
    /\ availableModels' = IF Len(models) > 0 THEN models ELSE availableModels
    /\ isLoadingModels' = FALSE
    /\ AfterLoadSettings(c)
    /\ UNCHANGED <<mounted, server, settings, formVars, rosterVars, keyVars,
                   showFreeOnly, getSettingsCalls, error, success, updateCalls,
                   defaultsCalls, budget, saveRefused, removeRefused, stageVars>>

\* api.getModels() rejected: console.warn, finally of loadModels, loadSettings returns
getModelsRejected(c) ==
    /\ getModelsCalls[c] > 0
    /\ getModelsCalls' = [getModelsCalls EXCEPT ![c] = @ - 1]
    /\ isLoadingModels' = FALSE
    /\ AfterLoadSettings(c)
    /\ UNCHANGED <<mounted, server, settings, formVars, rosterVars, keyVars,
                   availableModels, showFreeOnly, getSettingsCalls, error, success,
                   updateCalls, defaultsCalls, budget, saveRefused, removeRefused, stageVars>>

-----------------------------------------------------------------------------
(* The key tests: handleTestTavily, handleTestBrave, handleTestOpenRouter. *)

\* faulty variant of handleTest: the empty-key early return is missing
handleTestNoEarlyReturn(k) ==
    /\ isTesting' = [isTesting EXCEPT ![k] = TRUE]
    /\ testResult' = [testResult EXCEPT ![k] = {}]
    /\ testCalls' = [testCalls EXCEPT ![k].fresh = @ + 1]
    /\ UNCHANGED apiKey

\* the handler up to its await (no key: the local result, and return)
handleTest(k) ==
    /\ IF apiKey[k] = <<>>
       THEN /\ testResult' = [testResult EXCEPT ![k] = {EnterKeyFirst}]
            /\ UNCHANGED <<isTesting, testCalls>>
       ELSE /\ isTesting' = [isTesting EXCEPT ![k] = TRUE]
            /\ testResult' = [testResult EXCEPT ![k] = {}]
            /\ testCalls' = [testCalls EXCEPT ![k].fresh = @ + 1]
    /\ UNCHANGED apiKey

\* the handler called as a function, whatever the render shows
callHandleTest(k) ==
    /\ Spend
    /\ handleTest(k)
    /\ UNCHANGED <<server, loadVars, formVars, rosterVars, catalogVars, saveVars,
                   defaultsCalls, saveRefused, removeRefused, stageVars>>

\* a click on the Test button of key k
clickTest(k) ==
    /\ KeySectionShown(k)
    /\ ~TestDisabled(k)
    /\ callHandleTest(k)

\* one call in flight for key k completes: a fresh one, or one started before
\* the last keystroke
TestCallDone(k, age) ==
    /\ testCalls[k][age] > 0
    /\ testCalls' = [testCalls EXCEPT ![k][age] = @ - 1]

\* faulty variant of testResolved: the finally block is missing
testResolvedKeepsFlag(k, age, result) ==
    /\ TestCallDone(k, age)
    /\ testResult' = [testResult EXCEPT ![k] = {result}]
    /\ UNCHANGED <<isTesting, apiKey, server, loadVars, formVars, rosterVars,
                   catalogVars, saveVars, defaultsCalls, budget, saveRefused, removeRefused, stageVars>>

\* api.test*Key resolved: setResult(result), finally
testResolved(k, age, result) ==
    /\ TestCallDone(k, age)
    /\ testResult' = [testResult EXCEPT ![k] = {result}]
    /\ isTesting' = [isTesting EXCEPT ![k] = FALSE]
    /\ UNCHANGED <<apiKey, server, loadVars, formVars, rosterVars, catalogVars,
                   saveVars, defaultsCalls, budget, saveRefused, removeRefused, stageVars>>

\* api.test*Key rejected: catch, finally
testRejected(k, age) ==
    /\ TestCallDone(k, age)
    /\ testResult' = [testResult EXCEPT ![k] = {TestFailed}]
    /\ isTesting' = [isTesting EXCEPT ![k] = FALSE]
    /\ UNCHANGED <<apiKey, server, loadVars, formVars, rosterVars, catalogVars,
                   saveVars, defaultsCalls, budget, saveRefused, removeRefused, stageVars>>

\* onChange of the input of key k: setKey(e.target.value); setTestResult(null).
\* React fires onChange only when the value changed.  The calls in flight
\* become calls started before the last keystroke.
typeKey(k, value) ==
    /\ KeySectionShown(k)
    /\ value # apiKey[k]
    /\ Spend
    /\ apiKey' = [apiKey EXCEPT ![k] = value]
    /\ testResult' = [testResult EXCEPT ![k] = {}]
    /\ testCalls' = [testCalls EXCEPT ![k] =
                        [fresh |-> 0, stale |-> testCalls[k].stale + testCalls[k].fresh]]
    /\ UNCHANGED <<isTesting, server, loadVars, formVars, rosterVars, catalogVars,
                   saveVars, defaultsCalls, saveRefused, removeRefused, stageVars>>

-----------------------------------------------------------------------------
(* The form and the roster. *)

\* onChange of a provider radio: setSelectedProvider(provider.id)
selectProvider(p) ==
    /\ Rendered
    /\ p # selectedProvider
    /\ Spend
    /\ selectedProvider' = p
    /\ UNCHANGED <<fullContentResults, server, loadVars, rosterVars, keyVars,
                   catalogVars, saveVars, defaultsCalls, saveRefused, removeRefused, stageVars>>

\* onChange of the slider, shown when selectedProvider !== 'tavily'
slideFullContent(n) ==
    /\ FullContentShown
    /\ n # fullContentResults
    /\ Spend
    /\ fullContentResults' = n
    /\ UNCHANGED <<selectedProvider, server, loadVars, rosterVars, keyVars,
                   catalogVars, saveVars, defaultsCalls, saveRefused, removeRefused, stageVars>>

\* onChange of the free-only checkbox
toggleFreeOnly ==
    /\ Rendered
    /\ Spend
    /\ showFreeOnly' = ~showFreeOnly
    /\ UNCHANGED <<availableModels, isLoadingModels, server, loadVars, formVars,
                   rosterVars, keyVars, saveVars, defaultsCalls, saveRefused, removeRefused, stageVars>>

\* onChange of the select of slot index: handleCouncilModelChange(index, value)
handleCouncilModelChange(index, modelId) ==
    /\ Rendered
    /\ index \in DOMAIN councilModels
    /\ modelId \in MemberOptions(councilModels[index]) \ {councilModels[index]}
    /\ Spend
    /\ councilModels' = ArraySet(councilModels, index, modelId)
    /\ UNCHANGED <<chairmanModel, server, loadVars, formVars, keyVars, catalogVars,
                   saveVars, defaultsCalls, saveRefused, removeRefused, stageVars>>

\* handleCouncilModelChange called as a function with any index from the first
\* slot to MaxPastEnd positions past the last one
callHandleCouncilModelChange(index, modelId) ==
    /\ Rendered
    /\ index \in IndexInputs
    /\ modelId \in ModelIdInputs
    /\ Spend
    /\ councilModels' = ArraySet(councilModels, index, modelId)
    /\ UNCHANGED <<chairmanModel, server, loadVars, formVars, keyVars, catalogVars,
                   saveVars, defaultsCalls, saveRefused, removeRefused, stageVars>>

\* click on "+ Add Council Member"; disabled={filteredModels.length === 0}
handleAddCouncilMember ==
    /\ Rendered
    /\ Len(filteredModels) # 0
    /\ Spend
    /\ councilModels' = AddedMember(councilModels)
    /\ UNCHANGED <<chairmanModel, server, loadVars, formVars, keyVars, catalogVars,
                   saveVars, defaultsCalls, saveRefused, removeRefused, stageVars>>

\* handleAddCouncilMember called as a function, whatever the render shows
callHandleAddCouncilMember ==
    /\ Rendered
    /\ Spend
    /\ councilModels' = AddedMember(councilModels)
    /\ UNCHANGED <<chairmanModel, server, loadVars, formVars, keyVars, catalogVars,
                   saveVars, defaultsCalls, saveRefused, removeRefused, stageVars>>

\* click on the remove button of slot index; disabled={councilModels.length <= 1}
handleRemoveCouncilMember(index) ==
    /\ Rendered
    /\ index \in DOMAIN councilModels
    /\ ~RemoveDisabled
    /\ Spend
    /\ councilModels' = RemoveAt(councilModels, index)
    /\ UNCHANGED <<chairmanModel, server, loadVars, formVars, keyVars, catalogVars,
                   saveVars, defaultsCalls, saveRefused, removeRefused, stageVars>>

\* a click on the remove button of slot index while it is disabled: no handler runs
clickRemoveRefused(index) ==
    /\ Rendered
    /\ index \in DOMAIN councilModels
    /\ RemoveDisabled
    /\ Spend
    /\ removeRefused' = TRUE
    /\ UNCHANGED <<server, loadVars, formVars, rosterVars, keyVars, catalogVars,
                   saveVars, defaultsCalls, saveRefused, stageVars>>

\* onChange of the chairman select: setChairmanModel(e.target.value)
selectChairman(modelId) ==
    /\ Rendered
    /\ modelId \in ChairmanOptions \ {chairmanModel}
    /\ Spend
    /\ chairmanModel' = modelId
    /\ UNCHANGED <<councilModels, server, loadVars, formVars, keyVars, catalogVars,
                   saveVars, defaultsCalls, saveRefused, removeRefused, stageVars>>

\* click on "Reset to Defaults": handleResetToDefaults up to its await
handleResetToDefaults ==
    /\ Rendered
    /\ Spend
    /\ defaultsCalls' = defaultsCalls + 1
    /\ UNCHANGED <<server, loadVars, formVars, rosterVars, keyVars, catalogVars,
                   saveVars, saveRefused, removeRefused, stageVars>>

\* faulty variant of defaultsResolved: the chairman of the defaults is dropped
defaultsResolvedRosterOnly ==
    /\ defaultsCalls > 0
    /\ defaultsCalls' = defaultsCalls - 1
    /\ councilModels' = DefaultSettings.council_models
    /\ UNCHANGED <<chairmanModel, server, loadVars, formVars, keyVars, catalogVars,
                   saveVars, budget, saveRefused, removeRefused, stageVars>>

\* api.getDefaultSettings() resolved
defaultsResolved ==
    /\ defaultsCalls > 0
    /\ defaultsCalls' = defaultsCalls - 1
    /\ councilModels' = DefaultSettings.council_models
    /\ chairmanModel' = DefaultSettings.chairman_model
    /\ UNCHANGED <<server, loadVars, formVars, keyVars, catalogVars, saveVars,
                   budget, saveRefused, removeRefused, stageVars>>

\* api.getDefaultSettings() rejected
defaultsRejected ==
    /\ defaultsCalls > 0
    /\ defaultsCalls' = defaultsCalls - 1
    /\ error' = FailedToLoadDefaults
    /\ UNCHANGED <<server, loadVars, formVars, rosterVars, keyVars, catalogVars,
                   isSaving, success, updateCalls, timers, budget, saveRefused, removeRefused, stageVars>>

-----------------------------------------------------------------------------
(* handleSave. *)

\* handleSave up to await api.updateSettings(updates)
handleSave ==
    /\ isSaving' = TRUE
    /\ error' = None
    /\ success' = FALSE
    /\ updateCalls' = Append(updateCalls, updates)
    /\ UNCHANGED <<timers, server, loadVars, formVars, rosterVars, keyVars,
                   catalogVars, defaultsCalls>>

\* a click on Save: the disabled button swallows it, else handleSave runs
clickSave ==
    /\ Rendered
    /\ Spend
    /\ IF SaveDisabled
       THEN /\ saveRefused' = (saveRefused \/ Len(councilModels) = 0)
            /\ UNCHANGED <<server, loadVars, formVars, rosterVars, keyVars,
                           catalogVars, saveVars, defaultsCalls>>
       ELSE /\ handleSave
            /\ UNCHANGED saveRefused
    /\ UNCHANGED <<removeRefused, stageVars>>

\* faulty variant of updateResolved: the secret buffers are not cleared
updateResolvedKeepsKeys(i) ==
    /\ i \in DOMAIN updateCalls
    /\ updateCalls' = RemoveAt(updateCalls, i)
    /\ server' = ServerApply(server, updateCalls[i])
    /\ success' = TRUE
    /\ loadSettings("save")
    /\ UNCHANGED <<apiKey, mounted, settings, formVars, rosterVars, isTesting, testResult,
                   testCalls, availableModels, showFreeOnly, isSaving, error,
                   timers, defaultsCalls, budget, saveRefused, removeRefused, stageVars>>

\* api.updateSettings resolved: success, the buffers are cleared, loadSettings starts
updateResolved(i) ==
    /\ i \in DOMAIN updateCalls
    /\ updateCalls' = RemoveAt(updateCalls, i)
    /\ server' = ServerApply(server, updateCalls[i])
    /\ success' = TRUE
    /\ apiKey' = [k \in Keys |-> <<>>]
    /\ loadSettings("save")
    /\ UNCHANGED <<mounted, settings, formVars, rosterVars, isTesting, testResult,
                   testCalls, availableModels, showFreeOnly, isSaving, error,
                   timers, defaultsCalls, budget, saveRefused, removeRefused, stageVars>>

\* faulty variant of updateRejected: the failure path clears the secret buffers
updateRejectedDropsKeys(i) ==
    /\ i \in DOMAIN updateCalls
    /\ updateCalls' = RemoveAt(updateCalls, i)
    /\ error' = FailedToSave
    /\ isSaving' = FALSE
    /\ apiKey' = [k \in Keys |-> <<>>]
    /\ UNCHANGED <<success, timers, server, loadVars, formVars, rosterVars,
                   isTesting, testResult, testCalls, catalogVars, defaultsCalls,
                   budget, saveRefused, removeRefused, stageVars>>

\* api.updateSettings rejected: catch, finally
updateRejected(i) ==
    /\ i \in DOMAIN updateCalls
    /\ updateCalls' = RemoveAt(updateCalls, i)
    /\ error' = FailedToSave
    /\ isSaving' = FALSE
    /\ UNCHANGED <<success, timers, server, loadVars, formVars, rosterVars, keyVars,
                   catalogVars, defaultsCalls, budget, saveRefused, removeRefused, stageVars>>

\* the timer of a successful save fires: setSuccess(false)
successTimeout ==
    /\ timers > 0
    /\ timers' = timers - 1
    /\ success' = FALSE
    /\ UNCHANGED <<isSaving, error, updateCalls, server, loadVars, formVars,
                   rosterVars, keyVars, catalogVars, defaultsCalls, budget,
                   saveRefused, removeRefused, stageVars>>

-----------------------------------------------------------------------------
(* Specifications. *)

\* what the user does in the rendered view
UserEvent ==
    \/ \E k \in Keys : \E value \in KeyInputs : typeKey(k, value)
    \/ \E k \in Keys : clickTest(k)
    \/ \E p \in { q.id : q \in Range(SEARCH_PROVIDERS) } : selectProvider(p)
    \/ \E n \in FullContentInputs : slideFullContent(n)
    \/ toggleFreeOnly
    \/ \E index \in DOMAIN councilModels :
           \E modelId \in MemberOptions(councilModels[index]) :
               handleCouncilModelChange(index, modelId)
    \/ handleAddCouncilMember
    \/ \E index \in DOMAIN councilModels : handleRemoveCouncilMember(index)
    \/ \E index \in DOMAIN councilModels : clickRemoveRefused(index)
    \/ \E modelId \in ChairmanOptions : selectChairman(modelId)
    \/ handleResetToDefaults
    \/ clickSave

\* a collaborator answers a call in flight, or a timer fires
Respond ==
    \/ \E c \in Callers : getSettingsResolved(c)
    \/ \E c \in Callers : getSettingsRejected(c)
    \/ \E c \in Callers : \E models \in CatalogResponses : getModelsResolved(c, models)
    \/ \E c \in Callers : getModelsRejected(c)
    \/ \E k \in Keys : \E age \in {"fresh", "stale"} :
           \E result \in TestResponses : testResolved(k, age, result)
    \/ \E k \in Keys : \E age \in {"fresh", "stale"} : testRejected(k, age)
    \/ defaultsResolved
    \/ defaultsRejected
    \/ \E i \in DOMAIN updateCalls : updateResolved(i)
    \/ \E i \in DOMAIN updateCalls : updateRejected(i)
    \/ successTimeout

Next == useEffectMount \/ UserEvent \/ Respond

\* the settings view as the user drives it
Spec == Init /\ [][Next]_vars

\* the handlers called as functions as well: a caller that does not go through
\* the rendered controls (their disabled attributes)
HandlerNext == Next \/ \E k \in Keys : callHandleTest(k)

HandlerSpec == Init /\ [][HandlerNext]_vars

\* the roster editor: its controls, and its handlers called as functions
RosterEvent ==
    \/ toggleFreeOnly
    \/ \E index \in DOMAIN councilModels :
           \E modelId \in MemberOptions(councilModels[index]) :
               handleCouncilModelChange(index, modelId)
    \/ handleAddCouncilMember
    \/ \E index \in DOMAIN councilModels : handleRemoveCouncilMember(index)
    \/ \E index \in DOMAIN councilModels : clickRemoveRefused(index)
    \/ \E index \in IndexInputs : \E modelId \in ModelIdInputs :
           callHandleCouncilModelChange(index, modelId)
    \/ callHandleAddCouncilMember

\* the settings and the catalog arrive
LoadResponse ==
    \/ \E c \in Callers : getSettingsResolved(c)
    \/ \E c \in Callers : \E models \in CatalogResponses : getModelsResolved(c, models)

\* the chairman select over every catalog and every persisted chairman
ChairmanInit == InitState /\ server \in ChairmanServers /\ budget = MaxEvents /\ NoStage

ChairmanNext ==
    \/ useEffectMount
    \/ \E c \in Callers : getSettingsResolved(c)
    \/ \E c \in Callers : \E models \in Catalogs : getModelsResolved(c, models)
    \/ toggleFreeOnly
    \/ \E modelId \in ChairmanOptions : selectChairman(modelId)

ChairmanSpec == ChairmanInit /\ [][ChairmanNext]_vars

RosterNext == useEffectMount \/ LoadResponse \/ RosterEvent

RosterSpec == Init /\ [][RosterNext]_vars

\* every collaborator eventually answers a call that stays in flight, the mount
\* effect runs, and a pending timer fires
Fairness ==
    /\ WF_vars(useEffectMount)
    /\ \A c \in Callers : WF_vars(getSettingsResolved(c) \/ getSettingsRejected(c))
    /\ \A c \in Callers :
           WF_vars((\E models \in CatalogResponses : getModelsResolved(c, models))
                   \/ getModelsRejected(c))
    /\ \A k \in Keys :
           WF_vars(\E age \in {"fresh", "stale"} :
                       \/ \E result \in TestResponses : testResolved(k, age, result)
                       \/ testRejected(k, age))
    /\ WF_vars(\E i \in DOMAIN updateCalls : updateResolved(i) \/ updateRejected(i))
    /\ WF_vars(defaultsResolved \/ defaultsRejected)
    /\ WF_vars(successTimeout)

FairSpec == LiveInit /\ [][Next]_vars /\ Fairness

-----------------------------------------------------------------------------
(* The stage views: strings. *)

\* the characters of an evaluation text, the labels, and the model ids of a
\* mapping; the mappings are the insertion-ordered entries of labelToModel
TextChars == {"A", "B", " "}
Texts == UNION { [1..n -> TextChars] : n \in 0..MaxTextLen }
Labels == { <<"A">>, <<"B">>, <<"A", "B">> }
DeanonModels == { <<"o", "/", "m">>, <<"n">>, <<"o", "/", "B">> }
Entries == [label : Labels, model : DeanonModels]
EntryLists ==
    { s \in UNION { [1..n -> Entries] : n \in 0..MaxLabels } :
        \A i, j \in DOMAIN s : s[i].label = s[j].label => i = j }
Mappings == {{}} \cup { {s} : s \in EntryLists }

\* the characters of a model id, and the ids (absent, or a string)
IdChars == {"a", "b", "/", ":"}
ModelIds == {{}} \cup { {s} : s \in UNION { [1..n -> IdChars] : n \in 0..MaxIdLen } }

Unknown == <<"U", "n", "k", "n", "o", "w", "n">>

\* modelId.includes(sep)
Includes(str, sep) == \E i \in DOMAIN str : str[i] = sep

\* the position of the k-th occurrence of sep in str (0 before the first,
\* past the end after the last)
SepAt(str, sep, k) ==
    LET P == { i \in DOMAIN str : str[i] = sep }
    IN  IF k = 0 THEN 0
        ELSE IF k > Cardinality(P) THEN Len(str) + 1
        ELSE CHOOSE p \in P : Cardinality({ q \in P : q <= p }) = k

\* str.split(sep): the segments between the occurrences of sep
Split(str, sep) ==
    [k \in 1..(Cardinality({ i \in DOMAIN str : str[i] = sep }) + 1) |->
        SubSeq(str, SepAt(str, sep, k - 1) + 1, SepAt(str, sep, k) - 1)]

\* a || b on strings: the empty string is falsy
Or(a, b) == IF a = <<>> THEN b ELSE a

\* getShortModelName(modelId) of Stage2.jsx
getShortModelName(modelId) ==
    IF modelId = {} \/ modelId = {<<>>} THEN Unknown
    ELSE LET id == CHOOSE x \in modelId : TRUE
         IN  IF Includes(id, "/") THEN Or(Split(id, "/")[2], id)
             ELSE IF Includes(id, ":") THEN Or(Split(id, ":")[2], id)
             ELSE id

\* the displayName of a Stage1 tab: const modelId = resp?.model || 'Unknown'; ...
Stage1DisplayName(respModel) ==
    LET modelId == IF respModel = {} \/ respModel = {<<>>} THEN Unknown
                   ELSE CHOOSE x \in respModel : TRUE
    IN  IF Includes(modelId, "/") THEN Or(Split(modelId, "/")[2], modelId)
        ELSE IF Includes(modelId, ":") THEN Or(Split(modelId, ":")[2], modelId)
        ELSE modelId

\* `**${modelShortName}**`
Bold(name) == <<"*", "*">> \o name \o <<"*", "*">>

\* pat occurs in str at position i
StartsAt(str, i, pat) ==
    /\ i + Len(pat) - 1 <= Len(str)
    /\ SubSeq(str, i, i + Len(pat) - 1) = pat

\* str.replace(new RegExp(pat, 'g'), by) from position i on, for a pattern of
\* literal characters: the matches are taken left to right and do not overlap
RECURSIVE ReplaceFrom(_, _, _, _)
ReplaceFrom(str, i, pat, by) ==
    IF i > Len(str) THEN <<>>
    ELSE IF StartsAt(str, i, pat)
         THEN by \o ReplaceFrom(str, i + Len(pat), pat, by)
         ELSE <<str[i]>> \o ReplaceFrom(str, i + 1, pat, by)

\* Object.entries(labelToModel).forEach(...) from entry k on
RECURSIVE ForEachEntry(_, _, _)
ForEachEntry(result, entries, k) ==
    IF k > Len(entries) THEN result
    ELSE ForEachEntry(ReplaceFrom(result, 1, entries[k].label,
                                  Bold(getShortModelName({entries[k].model}))),
                      entries, k + 1)

\* deAnonymizeText(text, labelToModel) of Stage2.jsx
deAnonymizeText(text, mapping) ==
    IF mapping = {} THEN text
    ELSE ForEachEntry(text, CHOOSE entries \in mapping : TRUE, 1)

-----------------------------------------------------------------------------
(* The stage views: actions. *)

\* the settings view takes no step
SettingsIdle == UNCHANGED settingsVars

\* the length of the collection of stage s (0 when absent)
ItemCount(s) == IF stageItems[s] = {} THEN 0 ELSE CHOOSE n \in stageItems[s] : TRUE

\* if (!rankings || rankings.length === 0) return null
StageShown(s) == ItemCount(s) > 0

\* faulty variant of safeActiveTab: the stored index is displayed unclamped
safeActiveTabStored(s) == activeTab[s]

\* Math.min(activeTab, rankings.length - 1)
safeActiveTab(s) == IF activeTab[s] <= ItemCount(s) - 1 THEN activeTab[s] ELSE ItemCount(s) - 1

\* the parent renders the stage with a new collection (absent, or of length n):
\* a dependency of the effect has changed
setItems(s, items) ==
    /\ ~effectPending[s]
    /\ stageItems' = [stageItems EXCEPT ![s] = items]
    /\ effectPending' = [effectPending EXCEPT ![s] = TRUE]
    /\ UNCHANGED <<activeTab, clamped, deanonVars, nameVars>>
    /\ SettingsIdle /\ UNCHANGED <<aggVars, sidebarVars>>

\* onClick={() => setActiveTab(index)} of a tab other than the stored one
clickTab(s, index) ==
    /\ ~effectPending[s]
    /\ StageShown(s)
    /\ index \in 0..(ItemCount(s) - 1)
    /\ index # activeTab[s]
    /\ activeTab' = [activeTab EXCEPT ![s] = index]
    /\ effectPending' = [effectPending EXCEPT ![s] = TRUE]
    /\ UNCHANGED <<stageItems, clamped, deanonVars, nameVars>>
    /\ SettingsIdle /\ UNCHANGED <<aggVars, sidebarVars>>

\* faulty variant of runEffect: the index is never reset
runEffectNoReset(s) ==
    /\ effectPending[s]
    /\ effectPending' = [effectPending EXCEPT ![s] = FALSE]
    /\ UNCHANGED <<stageItems, activeTab, clamped, deanonVars, nameVars>>
    /\ SettingsIdle /\ UNCHANGED <<aggVars, sidebarVars>>

\* faulty variant of runEffect: the index follows the last entry of the collection
runEffectFollowsLast(s) ==
    /\ effectPending[s]
    /\ IF StageShown(s) /\ activeTab[s] # ItemCount(s) - 1
       THEN /\ activeTab' = [activeTab EXCEPT ![s] = ItemCount(s) - 1]
            /\ clamped' = [clamped EXCEPT ![s] = TRUE]
            /\ UNCHANGED effectPending
       ELSE /\ effectPending' = [effectPending EXCEPT ![s] = FALSE]
            /\ UNCHANGED <<activeTab, clamped>>
    /\ UNCHANGED <<stageItems, deanonVars, nameVars>>
    /\ SettingsIdle /\ UNCHANGED <<aggVars, sidebarVars>>

\* the effect of the last render runs; a reset changes activeTab, which renders
\* again and makes the effect due once more
runEffect(s) ==
    /\ effectPending[s]
    /\ IF StageShown(s) /\ activeTab[s] >= ItemCount(s)
       THEN /\ activeTab' = [activeTab EXCEPT ![s] = ItemCount(s) - 1]
            /\ clamped' = [clamped EXCEPT ![s] = TRUE]
            /\ UNCHANGED effectPending
       ELSE /\ effectPending' = [effectPending EXCEPT ![s] = FALSE]
            /\ UNCHANGED <<activeTab, clamped>>
    /\ UNCHANGED <<stageItems, deanonVars, nameVars>>
    /\ SettingsIdle /\ UNCHANGED <<aggVars, sidebarVars>>

\* the evaluation text of the current tab is rendered
renderRanking ==
    /\ shownText = {}
    /\ shownText' = {deAnonymizeText(rankingText, labelToModel)}
    /\ UNCHANGED <<rankingText, labelToModel, tabVars, nameVars>>
    /\ SettingsIdle /\ UNCHANGED <<aggVars, sidebarVars>>

\* the name of a tab of stage s is rendered
renderTabName(s) ==
    /\ displayName[s] = {}
    /\ displayName' = [displayName EXCEPT ![s] =
                          {IF s = "stage1" THEN Stage1DisplayName(tabModel)
                                          ELSE getShortModelName(tabModel)}]
    /\ UNCHANGED <<tabModel, tabVars, deanonVars>>
    /\ SettingsIdle /\ UNCHANGED <<aggVars, sidebarVars>>

\* the settings view is not open
SettingsClosed == InitState /\ server = FreshServer /\ budget = 0

\* the tabs of the two stages while entries arrive and leave
TabNext ==
    \/ \E s \in Stages : \E items \in {{}} \cup { {n} : n \in 0..MaxTabs } : setItems(s, items)
    \/ \E s \in Stages : \E index \in 0..(MaxTabs - 1) : clickTab(s, index)
    \/ \E s \in Stages : runEffect(s)

TabInit == SettingsClosed /\ NoStage

TabSpec == TabInit /\ [][TabNext]_vars

\* deAnonymizeText over every text and every mapping
DeanonInit ==
    /\ SettingsClosed /\ NoTabs /\ NoName /\ NoAggregate /\ NoSidebar
    /\ rankingText \in Texts
    /\ labelToModel \in Mappings
    /\ shownText = {}

DeanonSpec == DeanonInit /\ [][renderRanking]_vars

\* the tab names over every model id
NameInit ==
    /\ SettingsClosed /\ NoTabs /\ NoText /\ NoAggregate /\ NoSidebar
    /\ tabModel \in ModelIds
    /\ displayName = [s \in Stages |-> {}]

NameNext == \E s \in Stages : renderTabName(s)

NameSpec == NameInit /\ [][NameNext]_vars

-----------------------------------------------------------------------------
(* Stage2: the aggregate rankings. *)

\* the entries of an aggregate ranking: a model and its average rank, in
\* thousandths, in any order and with ties
AggregateEntries == [model : DeanonModels, average_rank : {1000, 1335, 2000}]
AggregateInputs ==
    {{}} \cup { {s} : s \in UNION { [1..n -> AggregateEntries] : n \in 0..MaxAggregate } }

\* agg.average_rank.toFixed(2): thousandths rounded to hundredths
ToFixed2(x) == (x + 5) \div 10

\* faulty variant of RankPosition: the position is the rank by score, ties shared
RankPositionByScore(agg, index) ==
    1 + Cardinality({ j \in DOMAIN agg : agg[j].average_rank < agg[index + 1].average_rank })

\* #{index + 1}, index being the array index (from 0) of the entry
RankPosition(agg, index) == index + 1

\* the aggregate-rankings block is rendered:
\* aggregateRankings && aggregateRankings.length > 0 && aggregateRankings.map(...)
renderAggregate ==
    /\ shownAggregate = {}
    /\ shownAggregate' =
           {IF aggregateRankings = {} THEN <<>>
            ELSE LET agg == CHOOSE a \in aggregateRankings : TRUE
                 IN  [row \in DOMAIN agg |->
                        [position |-> RankPosition(agg, row - 1),
                         model |-> getShortModelName({agg[row].model}),
                         score |-> ToFixed2(agg[row].average_rank)]]}
    /\ UNCHANGED <<aggregateRankings, tabVars, deanonVars, nameVars, sidebarVars>>
    /\ SettingsIdle

AggregateInit ==
    /\ SettingsClosed /\ NoTabs /\ NoText /\ NoName /\ NoSidebar
    /\ aggregateRankings \in AggregateInputs
    /\ shownAggregate = {}

AggregateSpec == AggregateInit /\ [][renderAggregate]_vars

-----------------------------------------------------------------------------
(* The sidebar. *)

\* conv.id of the conversations prop
ConvIds == {"c1", "c2"}

\* the callbacks that navigate
NavCallbacks ==
    {"onSelectConversation", "onNewConversation", "onOpenSettings", "onDeleteConversation"}

\* one sidebar event is consumed
SidebarSpend == sidebarBudget > 0 /\ sidebarBudget' = sidebarBudget - 1

\* an entry of the history: what happened, on which conversation, and isLoading then
Logged(ev, id) == Append(sidebarLog, [ev |-> ev, id |-> id, loading |-> isLoading])

\* nothing but the sidebar takes a step
SidebarOnly == SettingsIdle /\ UNCHANGED <<tabVars, deanonVars, nameVars, aggVars>>

\* the parent renders the sidebar with another isLoading
setLoading(b) ==
    /\ b # isLoading
    /\ SidebarSpend
    /\ isLoading' = b
    /\ UNCHANGED <<deleteConfirmId, sidebarLog>>
    /\ SidebarOnly

\* click on "+ New Conversation"; disabled={isLoading}
clickNewConversation ==
    /\ ~isLoading
    /\ SidebarSpend
    /\ sidebarLog' = Logged("onNewConversation", "")
    /\ UNCHANGED <<isLoading, deleteConfirmId>>
    /\ SidebarOnly

\* click on a conversation item: !isLoading && onSelectConversation(conv.id)
clickConversation(id) ==
    /\ SidebarSpend
    /\ sidebarLog' = IF ~isLoading THEN Logged("onSelectConversation", id) ELSE sidebarLog
    /\ UNCHANGED <<isLoading, deleteConfirmId>>
    /\ SidebarOnly

\* handleDeleteClick(e, convId)
handleDeleteClick(convId) ==
    /\ deleteConfirmId' = {convId}
    /\ sidebarLog' = Logged("deleteClick", convId)

\* click on the delete button of a conversation; disabled={isLoading},
\* onClick: !isLoading && handleDeleteClick(e, conv.id)
clickDelete(id) ==
    /\ ~isLoading
    /\ SidebarSpend
    /\ handleDeleteClick(id)
    /\ UNCHANGED isLoading
    /\ SidebarOnly

\* click on "Settings"; disabled={isLoading}
clickSettings ==
    /\ ~isLoading
    /\ SidebarSpend
    /\ sidebarLog' = Logged("onOpenSettings", "")
    /\ UNCHANGED <<isLoading, deleteConfirmId>>
    /\ SidebarOnly

\* click on "Stop" in the overlay, rendered while isLoading
clickStop ==
    /\ isLoading
    /\ SidebarSpend
    /\ sidebarLog' = Logged("onAbort", "")
    /\ UNCHANGED <<isLoading, deleteConfirmId>>
    /\ SidebarOnly

\* {deleteConfirmId && <div className="modal-overlay">}
ModalShown == deleteConfirmId # {}

\* faulty variant of confirmDelete: the pending id is not cleared
confirmDeleteKeepsId ==
    /\ ModalShown
    /\ SidebarSpend
    /\ sidebarLog' = Logged("onDeleteConversation", CHOOSE id \in deleteConfirmId : TRUE)
    /\ UNCHANGED <<isLoading, deleteConfirmId>>
    /\ SidebarOnly

\* click on "Delete" in the modal: confirmDelete
confirmDelete ==
    /\ ModalShown
    /\ SidebarSpend
    /\ IF deleteConfirmId # {}
       THEN /\ sidebarLog' = Logged("onDeleteConversation", CHOOSE id \in deleteConfirmId : TRUE)
            /\ deleteConfirmId' = {}
       ELSE UNCHANGED <<sidebarLog, deleteConfirmId>>
    /\ UNCHANGED isLoading
    /\ SidebarOnly

\* click on "Cancel" or on the modal overlay: cancelDelete
cancelDelete ==
    /\ ModalShown
    /\ SidebarSpend
    /\ deleteConfirmId' = {}
    /\ sidebarLog' = Logged("cancel", "")
    /\ UNCHANGED isLoading
    /\ SidebarOnly

SidebarInit ==
    /\ SettingsClosed /\ NoTabs /\ NoText /\ NoName /\ NoAggregate
    /\ isLoading \in BOOLEAN
    /\ deleteConfirmId = {}
    /\ sidebarLog = <<>>
    /\ sidebarBudget = MaxSidebarEvents

SidebarNext ==
    \/ \E b \in BOOLEAN : setLoading(b)
    \/ clickNewConversation
    \/ \E id \in ConvIds : clickConversation(id)
    \/ \E id \in ConvIds : clickDelete(id)
    \/ clickSettings
    \/ clickStop
    \/ confirmDelete
    \/ cancelDelete

SidebarSpec == SidebarInit /\ [][SidebarNext]_vars

-----------------------------------------------------------------------------
(* Properties of the settings view. *)

\* a step issues api.updateSettings
UpdateIssued == Len(updateCalls') > Len(updateCalls)

\* save operations under way: the update call, or the reload it triggers
SavesInFlight == Len(updateCalls) + getSettingsCalls["save"] + getModelsCalls["save"]

\* C1: when a save issues the update, each secret field is in the payload if
\* and only if its buffer is non-empty and is not the masking placeholder.
C1_SecretSentIffEdited ==
    [][UpdateIssued =>
          LET u == updateCalls'[Len(updateCalls')]
          IN  \A k \in Keys :
                  (k \in DOMAIN u.secrets) <=> (apiKey[k] # <<>> /\ apiKey[k] # Placeholder)]_vars

\* C2: no step taken from a state whose council roster is empty issues the
\* update call.
C2_NoUpdateWithEmptyRoster ==
    [][Len(councilModels) = 0 => ~UpdateIssued]_vars

\* C2 witness: Save was clicked in the rendered view while the roster was
\* empty, and no update call is in flight.
C2_Witness ==
    saveRefused /\ Rendered /\ Len(councilModels) = 0 /\ updateCalls = <<>>

\* C3: at most one save operation (update call or the reload it triggers) is
\* under way at any time, and the in-flight flag is set while it is.
C3_OneSaveInFlight ==
    /\ SavesInFlight <= 1
    /\ SavesInFlight = 1 => isSaving

\* C3 witness: a save is in its reload while the roster is non-empty, so only
\* the in-flight flag keeps the Save button disabled.
C3_Witness ==
    isSaving /\ getModelsCalls["save"] = 1 /\ Len(councilModels) > 0 /\ budget > 0

\* C4: every in-flight flag that is set is eventually cleared: isSaving, each
\* isTesting flag, and isLoadingModels.
C4_FlagsEventuallyClear ==
    /\ isSaving ~> ~isSaving
    /\ \A k \in Keys : isTesting[k] ~> ~isTesting[k]
    /\ isLoadingModels ~> ~isLoadingModels

\* C4 witness: a key test failed (the call was rejected) and its flag is clear
\* again, while no call of any kind is left in flight.
C4_Witness ==
    /\ \E k \in Keys : testResult[k] = {TestFailed} /\ ~isTesting[k]
    /\ ~isSaving /\ ~isLoadingModels
    /\ SavesInFlight = 0 /\ Rendered

\* C5: neither the start of a save nor the failure of its update call changes
\* the draft (provider, full-content count, roster, chairman, secret buffers);
\* the failure shows the inline error and clears the in-flight flag, so Save is
\* enabled again whenever the roster is non-empty.
C5_SaveFailureKeepsDraft ==
    [][/\ clickSave => UNCHANGED <<formVars, rosterVars, apiKey>>
       /\ \A i \in DOMAIN updateCalls :
              updateRejected(i) =>
                  /\ UNCHANGED <<formVars, rosterVars, apiKey>>
                  /\ error' = FailedToSave
                  /\ BannerVisible'
                  /\ ~isSaving'
                  /\ (Len(councilModels') > 0 => ~SaveDisabled')]_vars

\* C5 witness: a save failed; the error is shown, a typed secret is still in
\* its buffer and Save is enabled.
C5_Witness ==
    /\ error = FailedToSave /\ BannerVisible
    /\ \E k \in Keys : KeySent(apiKey[k])
    /\ ~SaveDisabled

\* C6: when the update call resolves, the three secret buffers are emptied and
\* getSettings is issued while the in-flight flag stays set; the flag of a
\* save is cleared only by the failure of its update call or by the end of the
\* reload.
C6_SuccessClearsAndReloads ==
    [][/\ \A i \in DOMAIN updateCalls :
              updateResolved(i) =>
                  /\ apiKey' = [k \in Keys |-> <<>>]
                  /\ getSettingsCalls'["save"] = getSettingsCalls["save"] + 1
                  /\ isSaving /\ isSaving'
       /\ (isSaving /\ ~isSaving') =>
              \/ Len(updateCalls') < Len(updateCalls) /\ error' = FailedToSave
              \/ getSettingsCalls'["save"] + getModelsCalls'["save"]
                   < getSettingsCalls["save"] + getModelsCalls["save"]]_vars

\* C6 witness: a save that sent the OpenRouter key succeeded; the buffers are
\* empty and the reload's getSettings is in flight with the flag still set.
C6_Witness ==
    /\ isSaving /\ success
    /\ getSettingsCalls["save"] = 1
    /\ apiKey = [k \in Keys |-> <<>>]
    /\ server.key_set["openrouter"]

\* C7: when a test call that was started before the last keystroke in its
\* field completes, the field's test result stays absent.
C7_StaleTestResultDiscarded ==
    [][\A k \in Keys :
          testCalls'[k].stale < testCalls[k].stale => testResult'[k] = {}]_vars

\* C8: a key test invoked with an empty buffer yields the local failed result
\* "Please enter an API key first", starts no call and leaves the testing
\* flag as it was.
C8_EmptyKeyTestIsLocal ==
    [][\A k \in Keys :
          (callHandleTest(k) /\ apiKey[k] = <<>>) =>
              /\ testResult'[k] = {EnterKeyFirst}
              /\ testCalls'[k] = testCalls[k]
              /\ isTesting'[k] = isTesting[k]]_vars

\* C8 witness: the local result is set for a key with an empty buffer, no
\* call is in flight for it and its flag is clear.
C8_Witness ==
    \E k \in Keys :
        /\ Rendered
        /\ testResult[k] = {EnterKeyFirst}
        /\ apiKey[k] = <<>>
        /\ testCalls[k] = [fresh |-> 0, stale |-> 0]
        /\ ~isTesting[k]

\* C9: after a rejected settings fetch or catalog fetch the error banner is
\* part of the rendered view, and the step issues no new fetch.
C9_LoadFailureShowsBanner ==
    [][(\E c \in Callers : getSettingsRejected(c) \/ getModelsRejected(c)) =>
          /\ BannerVisible'
          /\ \A c \in Callers :
                 /\ getSettingsCalls'[c] <= getSettingsCalls[c]
                 /\ getModelsCalls'[c] <= getModelsCalls[c]]_vars

\* C10: while the initial getSettings has not completed (the effect has not
\* run, or its call is in flight) no getModels call has been issued; the
\* initial getModels call is in flight only after getSettings delivered the
\* settings.
C10_ModelsAfterSettings ==
    /\ (~mounted \/ getSettingsCalls["mount"] > 0) =>
           /\ \A c \in Callers : getModelsCalls[c] = 0
           /\ ~isLoadingModels
           /\ availableModels = <<>>
    /\ getModelsCalls["mount"] > 0 => Rendered

\* C10 witness: the initial getModels call is in flight after the initial
\* getSettings has completed.
C10_Witness ==
    getModelsCalls["mount"] = 1 /\ getSettingsCalls["mount"] = 0 /\ Rendered

-----------------------------------------------------------------------------
(* Properties of the council roster editor. *)

\* a step is a user event
IsUserEvent == budget' < budget

\* C11: a click on a remove button while the roster has exactly one member
\* leaves the roster unchanged, and no user event empties a non-empty roster.
C11_LastMemberKept ==
    [][/\ \A index \in DOMAIN councilModels :
              (/\ Len(councilModels) = 1
               /\ handleRemoveCouncilMember(index) \/ clickRemoveRefused(index))
              => councilModels' = councilModels
       /\ (IsUserEvent /\ Len(councilModels) >= 1) => Len(councilModels') >= 1]_vars

\* C11 witness: the remove button of the only member was clicked and the
\* member is still there.
C11_Witness ==
    removeRefused /\ Rendered /\ Len(councilModels) = 1

\* an entry of the roster is set by handleCouncilModelChange
SetMemberStep(index, modelId) ==
    \/ handleCouncilModelChange(index, modelId)
    \/ callHandleCouncilModelChange(index, modelId)

\* C12: setMember(index, modelId) with an index inside the roster replaces
\* exactly the entry at that index, the other entries and the length being
\* kept; with an index out of bounds the roster (contents and length) is
\* unchanged
C12_SetMemberFrame ==
    [][\A index \in IndexInputs : \A modelId \in ModelIdInputs :
           SetMemberStep(index, modelId) =>
               IF index \in DOMAIN councilModels
               THEN /\ Len(councilModels') = Len(councilModels)
                    /\ councilModels'[index] = modelId
                    /\ \A j \in DOMAIN councilModels :
                           j # index => councilModels'[j] = councilModels[j]
               ELSE councilModels' = councilModels]_vars

\* an entry is appended by handleAddCouncilMember
AddMemberStep == handleAddCouncilMember \/ callHandleAddCouncilMember

\* the positions of the catalog that pass the free-only filter
Eligible == { i \in DOMAIN availableModels : showFreeOnly => availableModels[i].is_free }

\* C13: addMember appends the id of the first model of the filtered catalog
\* (the full catalog, or its is_free entries when the free-only flag is set)
\* to the end of the roster and keeps the existing entries; with an empty
\* filtered catalog the roster is unchanged
C13_AddAppendsFirstFiltered ==
    [][AddMemberStep =>
           IF Eligible = {}
           THEN councilModels' = councilModels
           ELSE LET first == CHOOSE i \in Eligible : \A j \in Eligible : i <= j
                IN  /\ Len(councilModels') = Len(councilModels) + 1
                    /\ councilModels'[Len(councilModels')] = availableModels[first].id
                    /\ SubSeq(councilModels', 1, Len(councilModels)) = councilModels]_vars

\* the free-only flag is set and the free model has been added twice
C13_Witness ==
    /\ showFreeOnly
    /\ availableModels = Catalog
    /\ councilModels = <<"a/paid", "b/free", "b/free", "b/free">>

-----------------------------------------------------------------------------
(* Properties of reset-to-defaults and of the chairman select. *)

\* what a reset must leave alone: the persisted settings, the provider, the
\* full-content count, the secret buffers, and no updateSettings call is issued
ResetFrame == ~UpdateIssued /\ UNCHANGED <<server, settings, formVars, apiKey>>

\* C14: resetToDefaults overwrites the draft roster and the draft chairman with
\* the server-defined defaults and changes nothing else: no updateSettings
\* call is issued, and the persisted settings, the provider, the full-content
\* count and the secret buffers are unchanged; when fetching the defaults
\* fails the draft roster and chairman are unchanged
C14_ResetOverwritesDraftOnly ==
    [][/\ handleResetToDefaults => ResetFrame /\ UNCHANGED rosterVars
       /\ defaultsResolved =>
              /\ councilModels' = DefaultSettings.council_models
              /\ chairmanModel' = DefaultSettings.chairman_model
              /\ ResetFrame
       /\ defaultsRejected => ResetFrame /\ UNCHANGED rosterVars]_vars

\* the only user event so far is a reset, the defaults have arrived, and the
\* server still holds no settings
C14_Witness ==
    /\ budget = MaxEvents - 1
    /\ defaultsCalls = 0
    /\ error = None
    /\ server = FreshServer
    /\ councilModels = DefaultSettings.council_models
    /\ chairmanModel = DefaultSettings.chairman_model

\* the id is that of a free model of the catalog
IsFreeId(id) ==
    \E i \in DOMAIN availableModels :
        availableModels[i].id = id /\ availableModels[i].is_free

\* C15: for every catalog, free-only flag and chairman value, the options of
\* the chairman select hold no free model, except the currently selected
\* (legacy) value, which is listed exactly once and marked not recommended;
\* toggling the free-only flag does not change the list
C15_ChairmanListNoFree ==
    /\ [](Rendered =>
            /\ \A i \in DOMAIN chairmanOptionList :
                   IsFreeId(chairmanOptionList[i].value) =>
                       /\ chairmanOptionList[i].value = chairmanModel
                       /\ chairmanOptionList[i].notRecommended
            /\ IsFreeId(chairmanModel) =>
                   Cardinality({ i \in DOMAIN chairmanOptionList :
                                   chairmanOptionList[i].value = chairmanModel }) = 1)
    /\ [][toggleFreeOnly => chairmanOptionList' = chairmanOptionList]_vars

\* a free legacy chairman is listed after two paid models, free-only being set
C15_Witness ==
    /\ Rendered
    /\ showFreeOnly
    /\ IsFreeId(chairmanModel)
    /\ Len(chairmanOptionList) = 3
    /\ chairmanOptionList[3] = [value |-> chairmanModel, notRecommended |-> TRUE]

-----------------------------------------------------------------------------
(* Properties of the stage views. *)

\* the words of a text: its maximal runs of characters other than the space
Words(text) == Split(text, " ")

\* the entries of the mapping, and whether a word is one of its labels
EntriesOf(mapping) == IF mapping = {} THEN <<>> ELSE CHOOSE entries \in mapping : TRUE
IsMapped(word) == \E k \in DOMAIN EntriesOf(labelToModel) : EntriesOf(labelToModel)[k].label = word

\* the bolded short name of the model a mapped word stands for
NameOf(word) ==
    LET entries == EntriesOf(labelToModel)
        k == CHOOSE j \in DOMAIN entries : entries[j].label = word
    IN  Bold(getShortModelName({entries[k].model}))

\* the text with each word that is a label of the mapping rewritten to the
\* name of its own model, word by word
WholeWordsReplaced ==
    [k \in DOMAIN Words(rankingText) |->
        IF IsMapped(Words(rankingText)[k]) THEN NameOf(Words(rankingText)[k])
        ELSE Words(rankingText)[k]]

\* the text that was rendered
Shown == CHOOSE text \in shownText : TRUE

\* C16: for a text whose labels are all present in the mapping, deanonymize
\* replaces every occurrence of every label by the bolded short name of the
\* model the label maps to, and no occurrence of a mapped label remains
C16_EveryLabelReplaced ==
    (/\ shownText # {}
     /\ labelToModel # {}
     /\ \A k \in DOMAIN Words(rankingText) :
            Words(rankingText)[k] = <<>> \/ IsMapped(Words(rankingText)[k]))
    => /\ Words(Shown) = WholeWordsReplaced
       /\ \A k \in DOMAIN EntriesOf(labelToModel) :
              \A i \in DOMAIN Shown : ~StartsAt(Shown, i, EntriesOf(labelToModel)[k].label)

\* C17: labels are matched as whole tokens: a label that is a substring of
\* another label or of a longer word is not replaced inside that token, and
\* each label occurrence is rewritten to its own model's name whatever the
\* order of the mapping entries
C17_WholeTokenMatch ==
    (shownText # {} /\ labelToModel # {}) => Words(Shown) = WholeWordsReplaced

\* C18: the short name of an id containing '/' is the substring after the
\* first '/'; otherwise, of an id containing ':', the substring after the first
\* ':'; otherwise the id; of a null or empty id, "Unknown"
C18_ShortNameAfterFirstSeparator ==
    \A s \in Stages :
        displayName[s] # {} =>
            displayName[s] =
                {IF tabModel = {} \/ tabModel = {<<>>} THEN Unknown
                 ELSE LET id == CHOOSE x \in tabModel : TRUE
                      IN  IF Includes(id, "/")
                          THEN SubSeq(id, SepAt(id, "/", 1) + 1, Len(id))
                          ELSE IF Includes(id, ":")
                          THEN SubSeq(id, SepAt(id, ":", 1) + 1, Len(id))
                          ELSE id}

\* C19: with an absent mapping the text is returned unchanged, and every label
\* of the text that has no entry in the mapping is left verbatim in the output
C19_UnmappedLeftVerbatim ==
    shownText # {} =>
        IF labelToModel = {} THEN Shown = rankingText
        ELSE /\ Len(Words(Shown)) = Len(Words(rankingText))
             /\ \A k \in DOMAIN Words(rankingText) :
                    ~IsMapped(Words(rankingText)[k]) =>
                        Words(Shown)[k] = Words(rankingText)[k]

\* the stored index of stage s is past the end of its non-empty collection
OutOfRange(s) == StageShown(s) /\ activeTab[s] >= ItemCount(s)

\* C20: in each stage's tabbed view, once the collection has shrunk so that the
\* stored index is out of range, the next change of the view resets the index
\* to length - 1 of the new collection; whenever no effect is due, the index
\* is a valid position of the non-empty collection, at every step of arrival
C20_IndexClampedAfterShrink ==
    /\ [](\A s \in Stages :
              (~effectPending[s] /\ StageShown(s)) => activeTab[s] \in 0..(ItemCount(s) - 1))
    /\ [][\A s \in Stages :
              OutOfRange(s) =>
                  \/ UNCHANGED <<stageItems[s], activeTab[s]>>
                  \/ /\ stageItems'[s] = stageItems[s]
                     /\ activeTab'[s] = ItemCount(s) - 1]_vars

\* the collection of stage 2 has shrunk to two entries while its third tab was
\* active, and the effect has reset the index to the last entry
C20_Witness ==
    /\ clamped["stage2"]
    /\ ~effectPending["stage2"]
    /\ stageItems["stage2"] = {2}
    /\ activeTab["stage2"] = 1

\* C21: the active-tab index is never reset while the collection grows or
\* while the index is still in range: a step that changes the stored index of
\* a stage is a click on a tab, or finds the index at or past the length of a
\* non-empty collection; a change of the collection itself never writes it
C21_NoResetInRange ==
    [][\A s \in Stages :
           /\ stageItems'[s] # stageItems[s] => activeTab'[s] = activeTab[s]
           /\ activeTab'[s] # activeTab[s] =>
                  clickTab(s, activeTab'[s]) \/ OutOfRange(s)]_vars

\* the collection of stage 1 has grown to three entries around its second tab,
\* the effect has run, and the index was never reset
C21_Witness ==
    /\ ~clamped["stage1"]
    /\ ~effectPending["stage1"]
    /\ stageItems["stage1"] = {3}
    /\ activeTab["stage1"] = 1

\* C27: in every render of a stage view with a non-empty collection the tab
\* displayed, min(activeTab, length - 1), is a valid index of the collection,
\* also while the clamping effect is still due; with an empty or absent
\* collection nothing is rendered and the stored index is left unchanged
C27_DisplayedTabValid ==
    /\ [](\A s \in Stages :
              StageShown(s) => safeActiveTab(s) \in 0..(ItemCount(s) - 1))
    /\ [][\A s \in Stages : ~StageShown(s) => activeTab'[s] = activeTab[s]]_vars

\* stage 2 is rendered with one entry while its stored index is still 2 and
\* the clamping effect has not run yet
C27_Witness ==
    /\ effectPending["stage2"]
    /\ stageItems["stage2"] = {1}
    /\ activeTab["stage2"] = 2

-----------------------------------------------------------------------------
(* Properties of the search-provider sections. *)

\* the keys of the search providers (the OpenRouter key has its own section)
SearchKeys == { p.keyType : p \in Range(SEARCH_PROVIDERS) } \ {None}

\* C23: with the key-free provider (duckduckgo) selected no search API-key
\* section is shown; with tavily or brave selected the key section shown is
\* exactly that of the selected provider; the full-article-fetch control is
\* hidden exactly when tavily is selected.  A section that is not shown is not
\* edited
C23_SectionsFollowProvider ==
    /\ [](Rendered =>
            /\ selectedProvider = "duckduckgo" =>
                   \A k \in SearchKeys : ~KeySectionShown(k)
            /\ \A k \in SearchKeys : KeySectionShown(k) <=> selectedProvider = k
            /\ FullContentShown <=> selectedProvider # "tavily")
    /\ [][IsUserEvent =>
            /\ \A k \in SearchKeys : apiKey'[k] # apiKey[k] => selectedProvider = k
            /\ fullContentResults' # fullContentResults => selectedProvider # "tavily"]_vars

\* brave was selected and a key was typed into its section
C23_Witness ==
    /\ Rendered
    /\ selectedProvider = "brave"
    /\ apiKey["brave"] # <<>>
    /\ apiKey["tavily"] = <<>>

-----------------------------------------------------------------------------
(* Properties of deanonymization as a single pass. *)

\* no character of one label of the mapping occurs in another of its labels
DisjointLabels ==
    \A j, k \in DOMAIN EntriesOf(labelToModel) :
        j # k => Range(EntriesOf(labelToModel)[j].label)
                     \cap Range(EntriesOf(labelToModel)[k].label) = {}

\* the entries of the mapping in another order
Reordered ==
    LET entries == EntriesOf(labelToModel)
    IN  { [k \in DOMAIN entries |-> entries[p[k]]] :
            p \in { q \in [DOMAIN entries -> DOMAIN entries] :
                      \A j, k \in DOMAIN entries : q[j] = q[k] => j = k } }

\* one pass over the original text from position i on: a label found at the
\* position is replaced by the name of its model, any other character is copied
RECURSIVE SinglePassFrom(_, _, _)
SinglePassFrom(text, i, entries) ==
    IF i > Len(text) THEN <<>>
    ELSE LET hits == { k \in DOMAIN entries : StartsAt(text, i, entries[k].label) }
         IN  IF hits = {}
             THEN <<text[i]>> \o SinglePassFrom(text, i + 1, entries)
             ELSE LET k == CHOOSE h \in hits : \A g \in hits : h <= g
                  IN  Bold(getShortModelName({entries[k].model}))
                          \o SinglePassFrom(text, i + Len(entries[k].label), entries)

\* C24: deanonymization behaves as a single pass over the original text: the
\* name inserted for one label is not rewritten by the replacement of another
\* entry, and the result does not depend on the order of the entries (stated
\* for mappings whose labels share no character)
C24_SinglePass ==
    (shownText # {} /\ labelToModel # {} /\ DisjointLabels) =>
        /\ Shown = SinglePassFrom(rankingText, 1, EntriesOf(labelToModel))
        /\ \A entries \in Reordered : deAnonymizeText(rankingText, {entries}) = Shown

-----------------------------------------------------------------------------
(* Properties of the aggregate rankings and of the sidebar. *)

\* C22: the aggregate-ranking display never reorders its input: for every
\* input list the entry at array index i is shown at rank position i + 1, with
\* its own model and score, whatever the ties and the average_rank values
C22_AggregateOrderKept ==
    (shownAggregate # {} /\ aggregateRankings # {}) =>
        LET agg == CHOOSE a \in aggregateRankings : TRUE
            rows == CHOOSE r \in shownAggregate : TRUE
        IN  /\ Len(rows) = Len(agg)
            /\ \A i \in 0..(Len(agg) - 1) :
                   /\ rows[i + 1].position = i + 1
                   /\ rows[i + 1].model = getShortModelName({agg[i + 1].model})
                   /\ rows[i + 1].score = ToFixed2(agg[i + 1].average_rank)

\* a list that is not sorted by score and ends in a tie has been rendered
C22_Witness ==
    /\ shownAggregate # {}
    /\ aggregateRankings # {}
    /\ LET agg == CHOOSE a \in aggregateRankings : TRUE
       IN  /\ Len(agg) = 3
           /\ agg[1].average_rank > agg[2].average_rank
           /\ agg[2].average_rank = agg[3].average_rank

\* C25: while a query is running (isLoading) the sidebar invokes no navigation
\* callback: onSelectConversation, onNewConversation, onOpenSettings and
\* onDeleteConversation are never invoked in a state where isLoading is true,
\* also when the delete confirmation was opened before the query started
C25_NoNavigationWhileLoading ==
    \A n \in DOMAIN sidebarLog :
        sidebarLog[n].ev \in NavCallbacks => ~sidebarLog[n].loading

\* C26: onDeleteConversation is invoked only by a confirm that follows a
\* delete click, with the id of the most recent delete click, and at most once
\* per delete click; after a cancel no deletion is issued until a new delete
\* click
C26_DeleteOnlyConfirmed ==
    /\ [](\A n \in DOMAIN sidebarLog :
              sidebarLog[n].ev = "onDeleteConversation" =>
                  \E m \in 1..(n - 1) :
                      /\ sidebarLog[m].ev = "deleteClick"
                      /\ sidebarLog[m].id = sidebarLog[n].id
                      /\ \A k \in (m + 1)..(n - 1) :
                             sidebarLog[k].ev \notin {"deleteClick", "cancel", "onDeleteConversation"})
    /\ [][Len(sidebarLog') > Len(sidebarLog) =>
              /\ sidebarLog'[Len(sidebarLog')].ev = "onDeleteConversation" => confirmDelete
              /\ sidebarLog'[Len(sidebarLog')].ev = "cancel" => deleteConfirmId' = {}]_vars

\* a delete click was cancelled, and a second delete click on another
\* conversation was confirmed
C26_Witness ==
    /\ Len(sidebarLog) = 4
    /\ sidebarLog[1].ev = "deleteClick" /\ sidebarLog[1].id = "c1"
    /\ sidebarLog[2].ev = "cancel"
    /\ sidebarLog[3].ev = "deleteClick" /\ sidebarLog[3].id = "c2"
    /\ sidebarLog[4].ev = "onDeleteConversation" /\ sidebarLog[4].id = "c2"
    /\ deleteConfirmId = {}
====
